---- MODULE Spec2Model ----
(***************************************************************************)
(* A model of the UnMuter audio callback of UROnMute (Source/UROnMute.h).  *)
(*                                                                         *)
(* Two execution contexts share the run flag testIsRunning:                *)
(*   - the audio thread, which the host makes call                         *)
(*     audioDeviceIOCallbackWithContext once per buffer; the callback      *)
(*     holds the CriticalSection `lock` for the whole call;                *)
(*   - the control (message) thread, on which a click on the START/STOP    *)
(*     button runs startTest(), which calls beginTest(), and on which the  *)
(*     host delivers audioDeviceAboutToStart / audioDeviceStopped.         *)
(*                                                                         *)
(* beginTest() reads and writes testIsRunning WITHOUT taking `lock`.  The  *)
(* accesses therefore race with the callback's read.  The race is modelled *)
(* by what a build can do with an unsynchronised store: the store sits in  *)
(* the storing thread's store buffer (the thread itself reads it back) and *)
(* reaches the memory the other threads read at some later moment.         *)
(***************************************************************************)
EXTENDS Integers, Sequences, FiniteSets

\* ------------------------------------------------------------------ bounds

\* The device is opened with at most 2 input and 2 output channels.
MaxInputChannels == 2
MaxOutputChannels == 2
\* Longest buffer the host hands to one callback.
MaxSamples == 2
\* beginTest() calls a control thread completes between two device starts.
MaxToggles == 3
\* Stores a thread may have pending before it stalls.
StoreBufferDepth == 1

\* ------------------------------------------------------------------ values

nullptr == 0

Threads == {1, 2}
\* The message thread: the only control thread of the application.
MessageThread == 1

InPointers == 1 .. MaxInputChannels
OutPointers == 1 .. MaxOutputChannels
SampleIndex == 0 .. (MaxSamples - 1)

\* What an output buffer may hold when the host hands it over.
JunkValues == {7, 9}
\* The sample read through a pointer that points nowhere.
Garbage == 99

\* Channel p of a "const" input holds p everywhere (A = [1,1], B = [2,2]);
\* a "ramp" input holds a different value at every index of every channel.
InputPatterns == {"const", "ramp"}

InputBuffers(pattern) ==
    [p \in InPointers |->
        [s \in SampleIndex |-> IF pattern = "const" THEN p ELSE 10 * p + s]]

JunkBuffers(junk) == [p \in OutPointers |-> [s \in SampleIndex |-> junk]]

\* A channel-pointer array of the host: entry k is null or points to buffer
\* k + 1; entries at and beyond the channel count point to their buffer.
PointerArrays(max, n) ==
    { a \in [0 .. (max - 1) -> 0 .. max] :
        \A k \in 0 .. (max - 1) :
            /\ a[k] \in {nullptr, k + 1}
            /\ (k >= n => a[k] = k + 1) }

\* The arguments of one callback, with the buffers the pointers refer to.
AllCalls ==
    UNION { UNION { UNION {
        [inputChannelData : PointerArrays(MaxInputChannels, nIn),
         numInputChannels : {nIn},
         outputChannelData : PointerArrays(MaxOutputChannels, nOut),
         numOutputChannels : {nOut},
         numSamples : {n},
         pattern : InputPatterns,
         junk : JunkValues]
        : n \in 0 .. MaxSamples }
        : nOut \in 0 .. MaxOutputChannels }
        : nIn \in 0 .. MaxInputChannels }

\* The calls with one choice of buffer contents.
RampCalls == { c \in AllCalls : c.pattern = "ramp" /\ c.junk = 9 }

NoCall ==
    [inputChannelData |-> [k \in 0 .. (MaxInputChannels - 1) |-> k + 1],
     numInputChannels |-> 0,
     outputChannelData |-> [k \in 0 .. (MaxOutputChannels - 1) |-> k + 1],
     numOutputChannels |-> 0,
     numSamples |-> 0,
     pattern |-> "const",
     junk |-> 9]

\* ------------------------------------------------------------------- state

VARIABLES
    testIsRunning,  \* the run flag, as the memory all threads read holds it
    storeBuf,       \* per control thread: its stores not yet in memory
    lock,           \* who holds the CriticalSection: "none" or "audio"
    pc,             \* per control thread: its position in startTest() / beginTest()
    tmp,            \* per control thread: the flag as read by `if (testIsRunning)`
    ret,            \* per control thread: what its last beginTest() returned
    toggles,        \* per control thread: beginTest() calls completed since the last device start
    lastOp,         \* the last completed operation that set the flag
    deviceStarted,  \* the host has announced the device's start and not its stop
    unMuter,        \* the component has created its UnMuter and registered it as a callback
    buttonText,     \* the text of startTestButton
    args,           \* the arguments of the current callback
    inBufs,         \* the input buffers the host filled
    outBufs,        \* the output buffers
    apc,            \* the audio thread's position in the callback
    i,              \* the callback's loop index
    branch,         \* the branch the callback took: "none", "active", "silent"
    due,            \* the flag value this callback has to observe, if one is settled
    nullAccess      \* a null channel pointer was dereferenced

vars == <<testIsRunning, storeBuf, lock, pc, tmp, ret, toggles, lastOp,
          deviceStarted, unMuter, buttonText, args, inBufs, outBufs, apc, i, branch, due, nullAccess>>

uiVars == <<unMuter, buttonText>>
ctlVars == <<testIsRunning, storeBuf, pc, tmp, ret, toggles, lastOp, deviceStarted, uiVars>>
audioVars == <<lock, args, inBufs, outBufs, apc, i, branch, nullAccess>>

Unsettled == [known |-> FALSE, val |-> FALSE, op |-> "none"]

\* ---------------------------------------------------------- the run flag

\* What thread t reads from testIsRunning: its own latest pending store, or
\* memory.
Load(t) ==
    IF storeBuf[t] # <<>> THEN storeBuf[t][Len(storeBuf[t])] ELSE testIsRunning

\* bool testIsRunning = false; TextButton startTestButton { "START" };
Init ==
    /\ testIsRunning = FALSE
    /\ storeBuf = [t \in Threads |-> <<>>]
    /\ lock = "none"
    /\ pc = [t \in Threads |-> "idle"]
    /\ tmp = [t \in Threads |-> FALSE]
    /\ ret = [t \in Threads |-> FALSE]
    /\ toggles = [t \in Threads |-> 0]
    /\ lastOp = "construct"
    /\ deviceStarted = FALSE
    /\ unMuter = FALSE
    /\ buttonText = "START"
    /\ args = NoCall
    /\ inBufs = InputBuffers("const")
    /\ outBufs = JunkBuffers(9)
    /\ apc = "idle"
    /\ i = 0
    /\ branch = "none"
    /\ due = Unsettled
    /\ nullAccess = FALSE

\* ------------------------------------------------ the callback's arithmetic

\* A copy that reads the first sample of the channel at every index.
LoadThroughFirst(bufs, p, s) == IF p = nullptr THEN Garbage ELSE bufs[p][0]

\* inputChannelData[ich][i]: the sample behind pointer p at index s.
LoadThrough(bufs, p, s) == IF p = nullptr THEN Garbage ELSE bufs[p][s]

\* outputChannelData[och][i] = v: a store through a null pointer lands in no
\* output buffer (nullAccess records that it happened).
StoreThrough(bufs, p, s, v) ==
    IF p = nullptr THEN bufs ELSE [bufs EXCEPT ![p][s] = v]

\* A guard that forgets to test the output pointer.
CopyGuardInputOnly(inP, outP) == inP # nullptr

\* if ((inputChannelData[ich] != nullptr) && (outputChannelData[och] != nullptr))
CopyGuard(inP, outP) == inP # nullptr /\ outP # nullptr

\* The body of the innermost loop.
CopySample(out, in, c, ich, och, s) ==
    IF CopyGuard(c.inputChannelData[ich], c.outputChannelData[och])
    THEN StoreThrough(out, c.outputChannelData[och], s,
                      LoadThrough(in, c.inputChannelData[ich], s))
    ELSE out

\* for (auto och = numOutputChannels; --och >= 0;), from och downwards.
RECURSIVE OutputLoop(_, _, _, _, _, _)
OutputLoop(out, in, c, ich, och, s) ==
    IF och < 0 THEN out
    ELSE OutputLoop(CopySample(out, in, c, ich, och, s), in, c, ich, och - 1, s)

\* for (auto ich = numInputChannels; --ich >= 0;), from ich downwards.
RECURSIVE InputLoop(_, _, _, _, _)
InputLoop(out, in, c, ich, s) ==
    IF ich < 0 THEN out
    ELSE InputLoop(OutputLoop(out, in, c, ich, c.numOutputChannels - 1, s),
                   in, c, ich - 1, s)

\* The input channels taken from index 0 upwards.
RECURSIVE InputLoopUp(_, _, _, _, _)
InputLoopUp(out, in, c, ich, s) ==
    IF ich >= c.numInputChannels THEN out
    ELSE InputLoopUp(OutputLoop(out, in, c, ich, c.numOutputChannels - 1, s),
                     in, c, ich + 1, s)

SampleStepAscending(out, in, c, s) == InputLoopUp(out, in, c, 0, s)

\* One iteration of for (int i = 0; i < numSamples; ++i).
SampleStep(out, in, c, s) == InputLoop(out, in, c, c.numInputChannels - 1, s)

\* The active branch from sample s on.
RECURSIVE SampleLoop(_, _, _, _)
SampleLoop(out, in, c, s) ==
    IF s >= c.numSamples THEN out
    ELSE SampleLoop(SampleStep(out, in, c, s), in, c, s + 1)

\* A clear that stops one element short.
zeromemShort(bufs, p, n) ==
    IF p = nullptr THEN bufs
    ELSE [bufs EXCEPT ![p] = [s \in SampleIndex |-> IF s < n - 1 THEN 0 ELSE @[s]]]

\* A clear of the whole buffer, whatever the length asked for.
zeromemAll(bufs, p, n) ==
    IF p = nullptr THEN bufs
    ELSE [bufs EXCEPT ![p] = [s \in SampleIndex |-> 0]]

\* zeromem (p, (size_t) n * sizeof (float))
zeromem(bufs, p, n) ==
    IF p = nullptr THEN bufs
    ELSE [bufs EXCEPT ![p] = [s \in SampleIndex |-> IF s < n THEN 0 ELSE @[s]]]

\* if (outputChannelData[i] != nullptr)
ZeroGuard(outP) == outP # nullptr

\* One iteration of for (int i = 0; i < numOutputChannels; ++i).
ZeroStep(out, c, ch) ==
    IF ZeroGuard(c.outputChannelData[ch])
    THEN zeromem(out, c.outputChannelData[ch], c.numSamples)
    ELSE out

\* The idle branch from channel ch on.
RECURSIVE ZeroLoop(_, _, _)
ZeroLoop(out, c, ch) ==
    IF ch >= c.numOutputChannels THEN out
    ELSE ZeroLoop(ZeroStep(out, c, ch), c, ch + 1)

\* The output buffers one whole callback leaves.
Process(run, out, in, c) ==
    IF run THEN SampleLoop(out, in, c, 0) ELSE ZeroLoop(out, c, 0)

\* One iteration of the sample loop goes through a null pointer.
CopyDerefsNull(c) ==
    \E ich \in 0 .. (c.numInputChannels - 1), och \in 0 .. (c.numOutputChannels - 1) :
        /\ CopyGuard(c.inputChannelData[ich], c.outputChannelData[och])
        /\ (c.inputChannelData[ich] = nullptr \/ c.outputChannelData[och] = nullptr)

\* One iteration of the clearing loop goes through a null pointer.
ZeroDerefsNull(c, ch) ==
    ZeroGuard(c.outputChannelData[ch]) /\ c.outputChannelData[ch] = nullptr

\* ------------------------------------------------- the audio thread's steps

AllIdle == \A t \in Threads : pc[t] = "idle"

\* The host calls audioDeviceIOCallbackWithContext with fresh buffers; it
\* makes callbacks between audioDeviceAboutToStart and audioDeviceStopped.
AudioBegin(Calls) ==
    /\ apc = "idle"
    /\ deviceStarted
    /\ \E c \in Calls :
        /\ args' = c
        /\ inBufs' = InputBuffers(c.pattern)
        /\ outBufs' = JunkBuffers(c.junk)
    /\ apc' = "lock"
    /\ i' = 0
    /\ branch' = "none"
    /\ nullAccess' = FALSE
    /\ due' = IF AllIdle
              THEN [known |-> TRUE, val |-> Load(MessageThread), op |-> lastOp]
              ELSE Unsettled
    /\ UNCHANGED <<lock, ctlVars>>

\* const ScopedLock sl (lock);
AudioLock ==
    /\ apc = "lock"
    /\ lock = "none"
    /\ lock' = "audio"
    /\ apc' = "test"
    /\ UNCHANGED <<args, inBufs, outBufs, i, branch, nullAccess, due, ctlVars>>

\* if (testIsRunning): the one read of the flag.
AudioTest ==
    /\ apc = "test"
    /\ branch' = IF testIsRunning THEN "active" ELSE "silent"
    /\ apc' = IF testIsRunning THEN "copy" ELSE "zero"
    /\ i' = 0
    /\ UNCHANGED <<lock, args, inBufs, outBufs, nullAccess, due, ctlVars>>

\* A sample loop that tests the flag again at every sample and clears the
\* sample when it finds the flag false.
AudioCopyRereadsFlag ==
    /\ apc = "copy"
    /\ i < args.numSamples
    /\ outBufs' = IF testIsRunning
                  THEN SampleStep(outBufs, inBufs, args, i)
                  ELSE [p \in OutPointers |->
                          IF \E och \in 0 .. (args.numOutputChannels - 1) :
                                args.outputChannelData[och] = p
                          THEN [outBufs[p] EXCEPT ![i] = 0]
                          ELSE outBufs[p]]
    /\ nullAccess' = (nullAccess \/ CopyDerefsNull(args))
    /\ i' = i + 1
    /\ UNCHANGED <<lock, args, inBufs, apc, branch, due, ctlVars>>

\* One iteration of the sample loop of the active branch.
AudioCopy ==
    /\ apc = "copy"
    /\ i < args.numSamples
    /\ outBufs' = SampleStep(outBufs, inBufs, args, i)
    /\ nullAccess' = (nullAccess \/ CopyDerefsNull(args))
    /\ i' = i + 1
    /\ UNCHANGED <<lock, args, inBufs, apc, branch, due, ctlVars>>

\* One iteration of the clearing loop of the idle branch.
AudioZero ==
    /\ apc = "zero"
    /\ i < args.numOutputChannels
    /\ outBufs' = ZeroStep(outBufs, args, i)
    /\ nullAccess' = (nullAccess \/ ZeroDerefsNull(args, i))
    /\ i' = i + 1
    /\ UNCHANGED <<lock, args, inBufs, apc, branch, due, ctlVars>>

\* A return that leaves the lock held.
AudioReturnKeepsLock ==
    /\ \/ apc = "copy" /\ i >= args.numSamples
       \/ apc = "zero" /\ i >= args.numOutputChannels
    /\ apc' = "returned"
    /\ UNCHANGED <<lock, args, inBufs, outBufs, i, branch, nullAccess, due, ctlVars>>

\* The loop ends; leaving the function releases the ScopedLock.
AudioReturn ==
    /\ \/ apc = "copy" /\ i >= args.numSamples
       \/ apc = "zero" /\ i >= args.numOutputChannels
    /\ lock' = "none"
    /\ apc' = "returned"
    /\ UNCHANGED <<args, inBufs, outBufs, i, branch, nullAccess, due, ctlVars>>

\* The buffers are the host's: it takes them back when the callback is over.
AudioEnd ==
    /\ apc = "returned"
    /\ apc' = "idle"
    /\ args' = NoCall
    /\ inBufs' = InputBuffers("const")
    /\ outBufs' = JunkBuffers(9)
    /\ i' = 0
    /\ branch' = "none"
    /\ nullAccess' = FALSE
    /\ due' = Unsettled
    /\ UNCHANGED <<lock, ctlVars>>

\* ----------------------------------------------- the control thread's steps

\* A control operation that starts before the callback has read the flag
\* leaves the value the callback has to observe unsettled.
DueAfterControl == IF apc \in {"lock", "test"} THEN Unsettled ELSE due

\* if (unMuter.get() == nullptr) { unMuter.reset (new UnMuter (resultsBox));
\* audioDeviceManager.addAudioCallback (unMuter.get()); }: the first click.
CreateUnMuter(t) ==
    /\ pc[t] = "idle"
    /\ ~unMuter
    /\ unMuter' = TRUE
    /\ UNCHANGED <<testIsRunning, storeBuf, pc, tmp, ret, toggles, lastOp, deviceStarted,
                   buttonText, due, audioVars>>

\* startTest() calls beginTest(), which writes its line to the results box.
BeginTestCall(t) ==
    /\ pc[t] = "idle"
    /\ unMuter
    /\ toggles[t] < MaxToggles
    /\ pc' = [pc EXCEPT ![t] = "test"]
    /\ due' = DueAfterControl
    /\ UNCHANGED <<testIsRunning, storeBuf, tmp, ret, toggles, lastOp, deviceStarted, uiVars, audioVars>>

\* if (testIsRunning)
BeginTestRead(t) ==
    /\ pc[t] = "test"
    /\ tmp' = [tmp EXCEPT ![t] = Load(t)]
    /\ pc' = [pc EXCEPT ![t] = "flip"]
    /\ UNCHANGED <<testIsRunning, storeBuf, ret, toggles, lastOp, deviceStarted, due, uiVars, audioVars>>

\* A beginTest() that only ever starts the test.
AlwaysStart(v) == TRUE

\* if (testIsRunning) testIsRunning = false; else testIsRunning = true;
FlipValue(v) == IF v THEN FALSE ELSE TRUE

\* The store of the flipped value: no lock is held, the store is pending.
BeginTestFlip(t) ==
    /\ pc[t] = "flip"
    /\ Len(storeBuf[t]) < StoreBufferDepth
    /\ storeBuf' = [storeBuf EXCEPT ![t] = Append(@, FlipValue(tmp[t]))]
    /\ pc' = [pc EXCEPT ![t] = "ret"]
    /\ UNCHANGED <<testIsRunning, tmp, ret, toggles, lastOp, deviceStarted, due, uiVars, audioVars>>

\* return testIsRunning; the build may read the flag again or return the
\* value it has just stored.
BeginTestReturn(t) ==
    /\ pc[t] = "ret"
    /\ \E r \in {Load(t), FlipValue(tmp[t])} : ret' = [ret EXCEPT ![t] = r]
    /\ toggles' = [toggles EXCEPT ![t] = @ + 1]
    /\ lastOp' = "beginTest"
    /\ pc' = [pc EXCEPT ![t] = "label"]
    /\ UNCHANGED <<testIsRunning, storeBuf, tmp, deviceStarted, due, uiVars, audioVars>>

\* if (unMuter->beginTest()) startTestButton.setButtonText ("STOP");
\* else startTestButton.setButtonText ("START");
SetButtonText(t) ==
    /\ pc[t] = "label"
    /\ buttonText' = IF ret[t] THEN "STOP" ELSE "START"
    /\ pc' = [pc EXCEPT ![t] = "idle"]
    /\ UNCHANGED <<testIsRunning, storeBuf, tmp, ret, toggles, lastOp, deviceStarted,
                   unMuter, due, audioVars>>

\* A pending store of beginTest() reaches memory.
Flush(t) ==
    /\ storeBuf[t] # <<>>
    /\ testIsRunning' = Head(storeBuf[t])
    /\ storeBuf' = [storeBuf EXCEPT ![t] = Tail(@)]
    /\ UNCHANGED <<pc, tmp, ret, toggles, lastOp, deviceStarted, due, uiVars, audioVars>>

\* A device start that leaves the flag as it is.
AboutToStartKeepsFlag(t) ==
    /\ pc[t] = "idle"
    /\ unMuter
    /\ testIsRunning' = Load(t)
    /\ storeBuf' = [storeBuf EXCEPT ![t] = <<>>]
    /\ toggles' = [u \in Threads |-> 0]
    /\ lastOp' = "aboutToStart"
    /\ deviceStarted' = TRUE
    /\ due' = IF apc \in {"lock", "test"}
              THEN [known |-> FALSE, val |-> FALSE, op |-> "none"]
              ELSE due
    /\ UNCHANGED <<pc, tmp, ret, uiVars, audioVars>>

\* testIsRunning = false; the host delivers the notification under the lock
\* it holds around every callback it makes, so the stores of the notifying
\* thread are in memory when the notification is over.
AudioDeviceAboutToStart(t) ==
    /\ pc[t] = "idle"
    /\ unMuter
    /\ testIsRunning' = FALSE
    /\ storeBuf' = [storeBuf EXCEPT ![t] = <<>>]
    /\ toggles' = [u \in Threads |-> 0]
    /\ lastOp' = "aboutToStart"
    /\ deviceStarted' = TRUE
    /\ due' = DueAfterControl
    /\ UNCHANGED <<pc, tmp, ret, uiVars, audioVars>>

\* void audioDeviceStopped() override {}: the engine does nothing; the host
\* makes no further callback until the next start.
AudioDeviceStopped(t) ==
    /\ pc[t] = "idle"
    /\ unMuter
    /\ deviceStarted
    /\ deviceStarted' = FALSE
    /\ UNCHANGED <<testIsRunning, storeBuf, pc, tmp, ret, toggles, lastOp, due, uiVars, audioVars>>

\* ---------------------------------------------------------- specifications

BeginTest(t) ==
    \/ BeginTestCall(t)
    \/ BeginTestRead(t)
    \/ BeginTestFlip(t)
    \/ BeginTestReturn(t)
    \/ Flush(t)

\* A click on startTestButton: startTest().
StartTest(t) ==
    \/ CreateUnMuter(t)
    \/ BeginTest(t)
    \/ SetButtonText(t)

Callback ==
    \/ AudioLock
    \/ AudioTest
    \/ AudioCopy
    \/ AudioZero
    \/ AudioReturn
    \/ AudioEnd

\* The application: the message thread and the audio thread, interleaved in
\* every way, over every shape of call.
Next ==
    \/ AudioBegin(RampCalls)
    \/ Callback
    \/ StartTest(MessageThread)
    \/ AudioDeviceAboutToStart(MessageThread)
    \/ AudioDeviceStopped(MessageThread)

Spec == Init /\ [][Next]_vars

\* The audio thread is a running thread of its own: a callback that can take
\* a step takes one, whatever the message thread does or fails to do.
SpecFair == Spec /\ WF_vars(Callback)

\* Every buffer shape the host can hand over; the message thread acts
\* between two callbacks.
NextData ==
    \/ AllIdle /\ AudioBegin(AllCalls)
    \/ Callback
    \/ apc = "idle" /\ StartTest(MessageThread)
    \/ apc = "idle" /\ AudioDeviceAboutToStart(MessageThread)
    \/ apc = "idle" /\ AudioDeviceStopped(MessageThread)

SpecData == Init /\ [][NextData]_vars

\* beginTest() called from two threads at once.
NextConc == \E t \in Threads : StartTest(t)

SpecConc == Init /\ [][NextConc]_vars

\* ------------------------------------------------------------------ claims

Returned == apc = "returned"

\* The output channels of the current callback whose pointer is not null.
LiveOutputs ==
    { och \in 0 .. (args.numOutputChannels - 1) : args.outputChannelData[och] # nullptr }

\* The input channels of the current callback whose pointer is not null.
LiveInputs ==
    { ich \in 0 .. (args.numInputChannels - 1) : args.inputChannelData[ich] # nullptr }

InRange == 0 .. (args.numSamples - 1)

\* C1: a callback that saw the flag false leaves 0 in the first numSamples
\* elements of every non-null output channel, whatever the buffers held.
C1_IdleSilence ==
    (Returned /\ branch = "silent") =>
        \A och \in LiveOutputs : \A s \in InRange :
            outBufs[args.outputChannelData[och]][s] = 0

C1_Witness ==
    /\ Returned /\ branch = "silent"
    /\ args.numOutputChannels = MaxOutputChannels
    /\ args.numSamples = MaxSamples
    /\ LiveOutputs # {}
    /\ args.junk = 7

\* C2: a callback that saw the flag true, with one non-null input and one
\* non-null output channel, leaves output[0][i] = input[0][i] for every i in
\* range.
C2_Passthrough ==
    (/\ Returned /\ branch = "active"
     /\ args.numInputChannels = 1 /\ args.numOutputChannels = 1
     /\ args.inputChannelData[0] # nullptr /\ args.outputChannelData[0] # nullptr) =>
        \A s \in InRange :
            outBufs[args.outputChannelData[0]][s] = inBufs[args.inputChannelData[0]][s]

C2_Witness ==
    /\ Returned /\ branch = "active"
    /\ args.numInputChannels = 1 /\ args.numOutputChannels = 1
    /\ args.inputChannelData[0] # nullptr /\ args.outputChannelData[0] # nullptr
    /\ args.numSamples = MaxSamples
    /\ args.pattern = "ramp"

\* The j-th smallest element of S, counting from 0.
Nth(S, j) == CHOOSE x \in S : Cardinality({y \in S : y < x}) = j

\* The pointers of `data` at the indices of `live`, in their order, moved to
\* the front of an array of `max` entries; the entries behind them are null.
Packed(data, live, max) ==
    [k \in 0 .. (max - 1) |->
        IF k < Cardinality(live) THEN data[Nth(live, k)] ELSE nullptr]

\* The current call with the null channels removed from both channel lists.
WithoutNullChannels ==
    [args EXCEPT
        !.inputChannelData = Packed(args.inputChannelData, LiveInputs, MaxInputChannels),
        !.numInputChannels = Cardinality(LiveInputs),
        !.outputChannelData = Packed(args.outputChannelData, LiveOutputs, MaxOutputChannels),
        !.numOutputChannels = Cardinality(LiveOutputs)]

\* C7: in either branch and for every choice of null channel pointers, the
\* callback never goes through a null pointer, and every non-null output
\* channel ends as the same call with the null channels removed from the
\* channel lists would leave it.
C7_NullChannelSafety ==
    /\ ~nullAccess
    /\ Returned =>
        \A och \in LiveOutputs :
            outBufs[args.outputChannelData[och]] =
                Process(branch = "active", JunkBuffers(args.junk), inBufs,
                        WithoutNullChannels)[args.outputChannelData[och]]

C7_Witness ==
    /\ Returned /\ branch = "active"
    /\ args.numInputChannels = 2 /\ args.numOutputChannels = 2
    /\ args.inputChannelData[0] = nullptr /\ args.inputChannelData[1] # nullptr
    /\ args.outputChannelData[0] = nullptr /\ args.outputChannelData[1] # nullptr
    /\ args.numSamples = MaxSamples

\* The fan-in scenario: inputs A = [1,1] at index 0 and B = [2,2] at index 1,
\* one output channel, none of them null, the flag seen true.
FanInScenario ==
    /\ Returned /\ branch = "active"
    /\ args.numInputChannels = 2 /\ args.numOutputChannels = 1
    /\ args.inputChannelData[0] # nullptr /\ args.inputChannelData[1] # nullptr
    /\ args.outputChannelData[0] # nullptr
    /\ args.pattern = "const"
    /\ args.numSamples = 2

\* C8 as stated: in the fan-in scenario the output channel ends with B's
\* values [2,2].
C8_OutputIsB ==
    FanInScenario =>
        \A s \in InRange :
            /\ inBufs[args.inputChannelData[1]][s] = 2
            /\ outBufs[args.outputChannelData[0]][s] = 2

\* C8, amended: in the fan-in scenario the output channel ends with A's
\* values [1,1]: the input channels are taken from the highest index down, so
\* channel A (index 0) is copied last and overwrites B's samples.
C8_OutputIsA ==
    FanInScenario =>
        \A s \in InRange :
            /\ inBufs[args.inputChannelData[0]][s] = 1
            /\ outBufs[args.outputChannelData[0]][s] = 1

C8_Witness == FanInScenario /\ args.junk = 9

\* The callback has read the flag, it began when no control operation was in
\* progress, none has started before its read, and `op` was the last one to
\* set the flag.
ReadAfter(op) == branch # "none" /\ due.known /\ due.op = op

\* C3 as stated: a beginTest() with no other control operation interleaved
\* flips the flag and returns the new value; a callback that begins after it
\* has returned takes the active branch if it returned true and the idle
\* branch if it returned false; from idle the first call returns true and the
\* second false.
C3_ToggleFlipsAndReports ==
    /\ (pc[MessageThread] = "idle" /\ lastOp = "beginTest") =>
        /\ ret[MessageThread] = ~tmp[MessageThread]
        /\ Load(MessageThread) = ret[MessageThread]
        /\ toggles[MessageThread] = 1 => ret[MessageThread] = TRUE
        /\ toggles[MessageThread] = 2 => ret[MessageThread] = FALSE
    /\ ReadAfter("beginTest") => (branch = IF due.val THEN "active" ELSE "silent")

\* C4: once audioDeviceAboutToStart() is over the flag is false, also after
\* beginTest() had made the engine active, and a callback that begins before
\* any further beginTest() takes the idle branch.
C4_DeviceStartResets ==
    /\ (pc[MessageThread] = "idle" /\ lastOp = "aboutToStart") =>
        (testIsRunning = FALSE /\ Load(MessageThread) = FALSE)
    /\ ReadAfter("aboutToStart") => branch = "silent"

C4_Witness ==
    /\ ReadAfter("aboutToStart")
    /\ Returned /\ branch = "silent"
    /\ ret[MessageThread] = TRUE

\* C5 as stated: beginTest() reads and flips the flag holding the lock, so it
\* is never between its read and its store while a callback is inside its
\* critical section, and the flag does not change between a callback's lock
\* acquisition and its release.
C5_ToggleUnderLock ==
    /\ [](~(lock = "audio" /\ pc[MessageThread] = "flip"))
    /\ [][(lock = "audio" /\ lock' = "audio") => testIsRunning' = testIsRunning]_vars

\* C6 as stated: a callback that begins after a beginTest() has completed
\* chooses its branch from a flag value that includes that toggle.
C6_ToggleVisibleToNextCallback ==
    ReadAfter("beginTest") => ((branch = "active") <=> due.val)

\* C9: the flag is false at construction; whenever no beginTest() is in
\* progress it is true exactly when the number of beginTest() calls completed
\* since construction or the last audioDeviceAboutToStart() is odd; no step
\* of the callback and no audioDeviceStopped() changes it.
C9_StateMachine ==
    /\ [](pc[MessageThread] = "idle" =>
            (Load(MessageThread) <=> toggles[MessageThread] % 2 = 1))
    /\ [](lastOp = "construct" /\ toggles[MessageThread] = 0 /\ pc[MessageThread] = "idle"
            => ~Load(MessageThread))
    /\ [][(apc' # apc \/ i' # i \/ (deviceStarted /\ ~deviceStarted')) =>
            (testIsRunning' = testIsRunning /\ storeBuf' = storeBuf)]_vars

C9_Witness ==
    /\ pc[MessageThread] = "idle"
    /\ lastOp = "beginTest"
    /\ toggles[MessageThread] = 3
    /\ Load(MessageThread) = TRUE
    /\ apc = "zero"

\* C10 as stated: two overlapping beginTest() calls act as if one ran after
\* the other: they return opposite values and the flag ends as it was before
\* both.
C10_TogglesSerialized ==
    (/\ AllIdle
     /\ toggles[1] = 1 /\ toggles[2] = 1) =>
        /\ ret[1] # ret[2]
        /\ (\A t \in Threads : storeBuf[t] = <<>>) => testIsRunning = FALSE

\* C11: a callback reads the flag once and handles the whole buffer in the
\* branch it chose then: whatever beginTest() or audioDeviceAboutToStart()
\* do while it runs, its branch does not change and its output is the output
\* of one branch, never partly copied and partly zero-filled.
C11_OneBranchPerBuffer ==
    /\ [](Returned =>
            outBufs = Process(branch = "active", JunkBuffers(args.junk), inBufs, args))
    /\ [][(branch # "none" /\ apc' # "idle") => branch' = branch]_vars

C11_Witness ==
    /\ Returned /\ branch = "active"
    /\ ~testIsRunning
    /\ args.numSamples = MaxSamples
    /\ LiveInputs # {} /\ LiveOutputs # {}

\* The input channel the descending loop copies last: the non-null one of
\* lowest index.
LastCopied == Nth(LiveInputs, 0)

\* C12: a callback that saw the flag true, with at least one non-null input
\* channel and numSamples > 0, leaves in every non-null output channel the
\* samples of one input channel, the non-null one of lowest index.
C12_FanInFanOut ==
    (Returned /\ branch = "active" /\ LiveInputs # {} /\ args.numSamples > 0) =>
        \A och \in LiveOutputs : \A s \in InRange :
            outBufs[args.outputChannelData[och]][s] =
                inBufs[args.inputChannelData[LastCopied]][s]

C12_Witness ==
    /\ Returned /\ branch = "active"
    /\ LiveInputs = {0, 1}
    /\ LiveOutputs = {0, 1}
    /\ args.numSamples = MaxSamples
    /\ args.pattern = "ramp"

\* The callback is running or has just returned.
InCallback == apc \in {"lock", "test", "copy", "zero", "returned"}

\* Element s of output buffer p is one the callback may write.
Writable(p, s) ==
    /\ s < args.numSamples
    /\ \E och \in LiveOutputs : args.outputChannelData[och] = p

\* C13: in either branch the callback leaves the run flag, every input sample
\* and every output element outside [0, numSamples) as they were; it writes
\* only elements below numSamples of non-null output channels below
\* numOutputChannels.
C13_Frame ==
    /\ [](InCallback =>
            /\ inBufs = InputBuffers(args.pattern)
            /\ \A p \in OutPointers : \A s \in SampleIndex :
                    ~Writable(p, s) => outBufs[p][s] = args.junk)
    /\ [][(apc \in {"lock", "test", "copy", "zero"} /\ (apc' # apc \/ i' # i)) =>
            (testIsRunning' = testIsRunning /\ storeBuf' = storeBuf /\ inBufs' = inBufs)]_vars

C13_Witness ==
    /\ Returned /\ branch = "silent"
    /\ args.numSamples = 1
    /\ args.numOutputChannels = 1 /\ LiveOutputs = {0}
    /\ outBufs[args.outputChannelData[0]][0] = 0
    /\ outBufs[args.outputChannelData[0]][1] = args.junk

\* C15 as stated: after a callback, in either branch and for every channel
\* count and null pattern, numInputChannels = 0 included, every element below
\* numSamples of every non-null output channel is 0 or the input sample of
\* some channel at the same index; none keeps what the buffer held before.
C15_NoStaleOutput ==
    Returned =>
        \A och \in LiveOutputs : \A s \in InRange :
            \/ outBufs[args.outputChannelData[och]][s] = 0
            \/ \E ich \in LiveInputs :
                outBufs[args.outputChannelData[och]][s] =
                    inBufs[args.inputChannelData[ich]][s]

\* C14: a callback that has begun acquires the lock, completes and releases
\* it whatever the control thread does, also when that thread stands still
\* in the middle of beginTest(); the lock is free whenever no callback is
\* between its acquisition and its return, and a callback that has begun can
\* always take its next step.
C14_LockReleased ==
    /\ [](lock = "audio" <=> apc \in {"test", "copy", "zero"})
    /\ [](apc \in {"lock", "test", "copy", "zero"} => ENABLED Callback)
    /\ (apc = "lock") ~> (apc = "returned" /\ lock = "none")

C14_Witness ==
    /\ Returned /\ lock = "none"
    /\ pc[MessageThread] = "flip"
    /\ ~due.known

\* C16 as stated: whenever no control operation is in progress the button
\* reads "STOP" exactly when the engine exists and its run flag is true, and
\* "START" otherwise.
C16_LabelMatchesFlag ==
    pc[MessageThread] = "idle" =>
        /\ buttonText \in {"START", "STOP"}
        /\ buttonText = "STOP" <=> (unMuter /\ Load(MessageThread))

====
